---- MODULE Spec2Model ----
(***************************************************************************)
(* Model of samples/wear-a-hat/src/app.ts: the WearAHat application.       *)
(*                                                                         *)
(* State: the hat database, the table of preloaded prefabs, the table of   *)
(* hats attached to users, the actors created from prefabs, the menu, the  *)
(* promises of preloadHats and the position of started().                  *)
(* One action per event handler or promise callback of the class.          *)
(***************************************************************************)
EXTENDS Integers, Sequences, FiniteSets, TLC

(***************************************************************************)
(* Bounds of the model.                                                    *)
(***************************************************************************)
\* Longest hat database (number of keys of hats.json) that is explored.
MaxCatalog == 3
\* Most actors created from prefabs in one behaviour.
MaxActors == 2

\* The users that click buttons and leave.
Users == {"u1", "u2"}

\* The keys a hat database is declared with. "7" and "12" are canonical
\* array indices, which Object.keys lists before every other key.
HatIds == {"none", "cap", "7", "12"}

(***************************************************************************)
(* Layout numbers of showHatMenu, in hundredths of a unit.                 *)
(***************************************************************************)
YStart == 30
YStep == 50
TitleRaise == 25

(***************************************************************************)
(* The hat database (HatDescriptor, HatDatabase).                          *)
(***************************************************************************)
Vec(x, y, z) == [x |-> x, y |-> y, z |-> z]

\* One HatDescriptor per key. Positions in hundredths, rotations in degrees.
HatDescriptor(hatId) ==
    CASE hatId = "none" ->
           [displayName |-> "None", resourceName |-> "",
            scale |-> Vec(0, 0, 0), rotation |-> Vec(0, 0, 0),
            position |-> Vec(0, 0, 0)]
      [] hatId = "cap" ->
           [displayName |-> "Cap", resourceName |-> "cap.glb",
            scale |-> Vec(100, 100, 100), rotation |-> Vec(0, 0, 0),
            position |-> Vec(0, 10, 0)]
      [] hatId = "7" ->
           [displayName |-> "Seven", resourceName |-> "seven.glb",
            scale |-> Vec(50, 50, 50), rotation |-> Vec(0, 90, 0),
            position |-> Vec(0, 20, 5)]
      [] hatId = "12" ->
           [displayName |-> "Twelve", resourceName |-> "twelve.glb",
            scale |-> Vec(80, 80, 80), rotation |-> Vec(45, 0, 0),
            position |-> Vec(5, 0, 0)]

\* The sequences without repetition over S, of length at most n: the
\* orders in which a hats.json can declare its keys.
RECURSIVE DistinctSeqs(_, _)
DistinctSeqs(S, n) ==
    IF n = 0 THEN {<<>>}
    ELSE LET shorter == DistinctSeqs(S, n - 1)
         IN shorter \cup
            {Append(s, k) : s \in {t \in shorter : Len(t) = n - 1},
                            k \in S}

Range(s) == {s[i] : i \in 1..Len(s)}

NoRepeat(s) == \A i, j \in 1..Len(s) : s[i] = s[j] => i = j

\* The declared hat databases: the keys in the order of the file, each with
\* its descriptor.
Catalogs ==
    {[i \in 1..Len(s) |-> [key |-> s[i], value |-> HatDescriptor(s[i])]] :
        s \in {t \in DistinctSeqs(HatIds, MaxCatalog) : NoRepeat(t)}}

\* The value of a canonical array index key, -1 for any other key.
ArrayIndex(key) ==
    CASE key = "7" -> 7
      [] key = "12" -> 12
      [] OTHER -> -1

IsArrayIndex(key) == ArrayIndex(key) >= 0

\* The keys of the sequence that are no array index, in its order.
RECURSIVE OtherKeys(_)
OtherKeys(keys) ==
    IF keys = <<>> THEN <<>>
    ELSE IF IsArrayIndex(Head(keys)) THEN OtherKeys(Tail(keys))
         ELSE <<Head(keys)>> \o OtherKeys(Tail(keys))

\* The elements of the set S of keys in ascending order of array index.
RECURSIVE SortByIndex(_)
SortByIndex(S) ==
    IF S = {} THEN <<>>
    ELSE LET least == CHOOSE k \in S :
                          \A o \in S : ArrayIndex(k) <= ArrayIndex(o)
         IN <<least>> \o SortByIndex(S \ {least})

DeclaredKeys(db) == [i \in 1..Len(db) |-> db[i].key]

\* Object.keys(db): the array index keys in ascending numeric order, then
\* the other keys in the order of their creation.
ObjectKeys(db) ==
    LET keys == DeclaredKeys(db)
    IN SortByIndex({k \in Range(keys) : IsArrayIndex(k)}) \o OtherKeys(keys)

\* db[hatId]
Lookup(db, hatId) == (CHOOSE e \in Range(db) : e.key = hatId).value

(***************************************************************************)
(* Assets and actors of the runtime, as far as the application reads them. *)
(***************************************************************************)
\* An asset of a loaded glTF. prefab tells whether a.prefab !== null.
Asset(resourceName, n, isPrefab) ==
    [id |-> <<resourceName, n>>, prefab |-> isPrefab]

\* What a missing property reads as, and what find returns on no match.
Undefined == [id |-> <<"undefined", 0>>, prefab |-> FALSE]

\* The ways the load of one resource can end: rejected, resolved without
\* any prefab, resolved with prefabs after another asset, or never settled.
LoadResults(resourceName) ==
    {[status |-> "rejected", assets |-> <<>>],
     [status |-> "resolved",
      assets |-> <<Asset(resourceName, 1, FALSE)>>],
     [status |-> "resolved",
      assets |-> <<Asset(resourceName, 1, FALSE),
                   Asset(resourceName, 2, TRUE),
                   Asset(resourceName, 3, TRUE)>>],
     [status |-> "never", assets |-> <<>>]}

\* The keys of db whose descriptor names a resource.
ResourceKeys(db) == {e.key : e \in {x \in Range(db) : x.value.resourceName # ""}}

\* f with f[k] set to v.
Put(f, k, v) == [x \in DOMAIN f \cup {k} |-> IF x = k THEN v ELSE f[x]]

\* A delete that empties the whole table.
DeleteAll(f, k) == <<>>

\* delete f[k]
Delete(f, k) == [x \in DOMAIN f \ {k} |-> f[x]]

\* f[k], undefined when f has no property k.
Get(f, k) == IF k \in DOMAIN f THEN f[k] ELSE Undefined

\* MRE.Quaternion.FromEulerAngles of angles given in degrees, each times
\* MRE.DegreesToRadians: the angles in units of pi/180 radians.
FromEulerDegrees(rotation) ==
    [euler |-> <<rotation.x, rotation.y, rotation.z>>, unit |-> "pi/180"]

(***************************************************************************)
(* The state of a WearAHat object and of its runtime.                      *)
(***************************************************************************)
VARIABLES
    HatDatabase,   \* the declared hat database
    loadResult,    \* how the load of each resource key will end
    pc,            \* started(): "constructed", "preloading", "running"
    loads,         \* the promise preloadHats maps each key to
    prefabs,       \* this.prefabs
    errorLog,      \* the errors log.error has been given
    attachedHats,  \* this.attachedHats: user id -> index into actors
    actors,        \* the actors created by CreateFromPrefab, in order
    menu,          \* the actors created by showHatMenu, in order
    last           \* the handler that ran last, and what it did

vars == <<HatDatabase, loadResult, pc, loads, prefabs, errorLog,
          attachedHats, actors, menu, last>>

\* The record of a handler run: the operation, its arguments, the actor
\* the user had attached before (0: none), the actor it created (0: none)
\* and whether it ended by throwing.
Ran(op, hatId, userId, had, created, threw) ==
    [op |-> op, hatId |-> hatId, userId |-> userId, had |-> had,
     created |-> created, threw |-> threw]

\* The state after the constructor: empty tables, handlers hooked.
Init ==
    /\ HatDatabase \in Catalogs
    /\ loadResult \in
         {f \in [ResourceKeys(HatDatabase) ->
                   UNION {LoadResults(HatDescriptor(k).resourceName) : k \in HatIds}] :
            \A k \in DOMAIN f :
               f[k] \in LoadResults(Lookup(HatDatabase, k).resourceName)}
    /\ pc = "constructed"
    /\ loads = <<>>
    /\ prefabs = <<>>
    /\ errorLog = {}
    /\ attachedHats = <<>>
    /\ actors = <<>>
    /\ menu = <<>>
    /\ last = Ran("constructor", "", "", 0, 0, FALSE)

(***************************************************************************)
(* preloadHats and started.                                                *)
(***************************************************************************)
\* assets.find(a => a.prefab !== null): the first asset that is a prefab,
\* undefined when there is none.
RECURSIVE FindPrefab(_)
FindPrefab(assets) ==
    IF assets = <<>> THEN Undefined
    ELSE IF Head(assets).prefab THEN Head(assets)
         ELSE FindPrefab(Tail(assets))

\* The promise preloadHats maps a key to, when it is created: the chained
\* load for a key with a resourceName, Promise.resolve() for any other.
MappedPromise(hatRecord) ==
    IF hatRecord.resourceName # "" THEN "pending" ELSE "fulfilled"

\* The callbacks without the catch: a rejected load rejects the chained
\* promise and logs nothing.
LoadSettledNoCatch(hatId, result) ==
    IF result.status = "resolved"
    THEN [prefabs |-> Put(prefabs, hatId, FindPrefab(result.assets)),
          errorLog |-> errorLog,
          promise |-> "fulfilled"]
    ELSE [prefabs |-> prefabs, errorLog |-> errorLog, promise |-> "rejected"]

\* A then callback that replaces the table by one holding its own prefab.
LoadSettledReplacesTable(hatId, result) ==
    IF result.status = "resolved"
    THEN [prefabs |-> Put(<<>>, hatId, FindPrefab(result.assets)),
          errorLog |-> errorLog,
          promise |-> "fulfilled"]
    ELSE [prefabs |-> prefabs,
          errorLog |-> errorLog \cup {[app |-> "app", failed |-> hatId]},
          promise |-> "fulfilled"]

\* The then and catch callbacks chained on the load of hatId, run when the
\* load settles with result: the tables after them and the state of the
\* chained promise.
LoadSettledResult(hatId, result) ==
    IF result.status = "resolved"
    THEN [prefabs |-> Put(prefabs, hatId, FindPrefab(result.assets)),
          errorLog |-> errorLog,
          promise |-> "fulfilled"]
    ELSE [prefabs |-> prefabs,
          errorLog |-> errorLog \cup {[app |-> "app", failed |-> hatId]},
          promise |-> "fulfilled"]

\* A started that does not await preloadHats.
PreloadNotAwaited == TRUE

\* A started that awaits Promise.race of the mapped promises.
PreloadRaced == \E k \in DOMAIN loads : loads[k] = "fulfilled"

\* Promise.all of the mapped promises is fulfilled, so that the await of
\* started returns.
PreloadJoined == \A k \in DOMAIN loads : loads[k] = "fulfilled"

\* The session starts: started calls preloadHats, which creates one
\* promise per key, and awaits them all.
Started ==
    /\ pc = "constructed"
    /\ pc' = "preloading"
    /\ loads' = [k \in Range(ObjectKeys(HatDatabase)) |->
                   MappedPromise(Lookup(HatDatabase, k))]
    /\ last' = Ran("started", "", "", 0, 0, FALSE)
    /\ UNCHANGED <<HatDatabase, loadResult, prefabs, errorLog,
                   attachedHats, actors, menu>>

\* The load of hatId settles and its callbacks run.
LoadSettled(hatId) ==
    /\ hatId \in DOMAIN loads
    /\ loads[hatId] = "pending"
    /\ loadResult[hatId].status # "never"
    /\ LET r == LoadSettledResult(hatId, loadResult[hatId])
       IN /\ prefabs' = r.prefabs
          /\ errorLog' = r.errorLog
          /\ loads' = [loads EXCEPT ![hatId] = r.promise]
    /\ last' = Ran("loadSettled", hatId, "", 0, 0, FALSE)
    /\ UNCHANGED <<HatDatabase, loadResult, pc, attachedHats, actors, menu>>

(***************************************************************************)
(* showHatMenu.                                                            *)
(***************************************************************************)
\* A menu whose y is never stepped: every entry at the first offset.
EntryYNotStepped(i) == YStart

\* The value of y in the i-th round of the loop of showHatMenu: y starts
\* at 0.3 and grows by 0.5 at the end of each round.
EntryY(i) == YStart + (i - 1) * YStep

\* The actors showHatMenu creates for the keys, in the order it creates
\* them: the parent, a button and a label per key, and the title.
MenuActors(db, keys) ==
    LET n == Len(keys)
        yOf(i) == EntryY(i)
        button(i) == [kind |-> "button", name |-> keys[i], contents |-> "",
                      x |-> 0, y |-> yOf(i), onClick |-> keys[i]]
        label(i) == [kind |-> "label", name |-> "label",
                     contents |-> Lookup(db, keys[i]).displayName,
                     x |-> 50, y |-> yOf(i), onClick |-> ""]
    IN <<[kind |-> "menu", name |-> "", contents |-> "",
          x |-> 0, y |-> 0, onClick |-> ""]>> \o
       [j \in 1..(2 * n) |->
           IF j % 2 = 1 THEN button((j + 1) \div 2) ELSE label(j \div 2)] \o
       <<[kind |-> "title", name |-> "label", contents |-> "Wear a Hat",
          x |-> 50, y |-> yOf(n + 1) + TitleRaise, onClick |-> ""]>>

\* The await of started returns and showHatMenu runs.
ShowHatMenu ==
    /\ pc = "preloading"
    /\ PreloadJoined
    /\ pc' = "running"
    /\ menu' = MenuActors(HatDatabase, ObjectKeys(HatDatabase))
    /\ last' = Ran("showHatMenu", "", "", 0, 0, FALSE)
    /\ UNCHANGED <<HatDatabase, loadResult, loads, prefabs, errorLog,
                   attachedHats, actors>>

(***************************************************************************)
(* userLeft and wearHat.                                                   *)
(***************************************************************************)
\* actor.destroy() on the actor at index id.
Destroy(acts, id) == [acts EXCEPT ![id].destroyCalls = @ + 1]

\* The actor attached to userId, 0 when attachedHats[userId] is falsy.
Attached(att, userId) == IF userId \in DOMAIN att THEN att[userId] ELSE 0

\* A userLeft that deletes the entry and leaves the actor alive.
UserLeftNoDestroy(att, acts, userId) ==
    [attachedHats |-> Delete(att, userId), actors |-> acts]

\* A userLeft that destroys the actor and keeps the entry.
UserLeftKeepEntry(att, acts, userId) ==
    [attachedHats |-> att,
     actors |-> IF Attached(att, userId) # 0
                THEN Destroy(acts, Attached(att, userId)) ELSE acts]

\* The body of userLeft: destroy the hat the user wears, delete the entry.
UserLeftResult(att, acts, userId) ==
    [attachedHats |-> Delete(att, userId),
     actors |-> IF Attached(att, userId) # 0
                THEN Destroy(acts, Attached(att, userId)) ELSE acts]

\* A wearHat that deletes the entry and leaves the old actor alive.
RemoveWornHatNoDestroy(att, acts, userId) ==
    [attachedHats |-> Delete(att, userId), actors |-> acts]

\* A wearHat that destroys the old actor and keeps its entry.
RemoveWornHatKeepEntry(att, acts, userId) ==
    [attachedHats |-> att,
     actors |-> IF Attached(att, userId) # 0
                THEN Destroy(acts, Attached(att, userId)) ELSE acts]

\* The first two statements of wearHat: destroy the hat the user wears,
\* delete the entry.
RemoveWornHat(att, acts, userId) ==
    [attachedHats |-> Delete(att, userId),
     actors |-> IF Attached(att, userId) # 0
                THEN Destroy(acts, Attached(att, userId)) ELSE acts]

\* A wearHat without the early out for 'none'.
NoneSelectedIgnored(hatRecord) == FALSE

\* !hatRecord.resourceName: the user selected 'none'.
NoneSelected(hatRecord) == hatRecord.resourceName = ""

\* A CreateFromPrefab call that passes the position as the scale.
CreateFromPrefabScaleSlip(prefab, hatRecord, userId) ==
    [prefabId |-> prefab.id,
     transform |-> [position |-> hatRecord.position,
                    rotation |-> FromEulerDegrees(hatRecord.rotation),
                    scale |-> hatRecord.position],
     attachment |-> [attachPoint |-> "head", userId |-> userId],
     destroyCalls |-> 0]

\* MRE.Actor.CreateFromPrefab with the arguments wearHat gives it.
CreateFromPrefab(prefab, hatRecord, userId) ==
    [prefabId |-> prefab.id,
     transform |-> [position |-> hatRecord.position,
                    rotation |-> FromEulerDegrees(hatRecord.rotation),
                    scale |-> hatRecord.scale],
     attachment |-> [attachPoint |-> "head", userId |-> userId],
     destroyCalls |-> 0]

\* A wearHat that keeps the actor the user wears when it was made from
\* the prefab of the selected key.
WearHatReuse(att, acts, pre, db, hatId, userId) ==
    LET worn == Attached(att, userId)
        removed == RemoveWornHat(att, acts, userId)
        hatRecord == Lookup(db, hatId)
    IN IF NoneSelected(hatRecord)
       THEN [attachedHats |-> removed.attachedHats, actors |-> removed.actors,
             created |-> 0, threw |-> FALSE]
       ELSE IF Get(pre, hatId) = Undefined
       THEN [attachedHats |-> removed.attachedHats, actors |-> removed.actors,
             created |-> 0, threw |-> TRUE]
       ELSE IF worn # 0 /\ acts[worn].prefabId = Get(pre, hatId).id
       THEN [attachedHats |-> att, actors |-> acts,
             created |-> 0, threw |-> FALSE]
       ELSE LET new == Len(removed.actors) + 1
            IN [attachedHats |-> Put(removed.attachedHats, userId, new),
                actors |-> Append(removed.actors,
                                  CreateFromPrefab(Get(pre, hatId), hatRecord, userId)),
                created |-> new, threw |-> FALSE]

\* A wearHat that looks for the prefab first and returns, leaving the
\* tables alone, when there is none.
WearHatCheckFirst(att, acts, pre, db, hatId, userId) ==
    LET removed == RemoveWornHat(att, acts, userId)
        hatRecord == Lookup(db, hatId)
    IN IF ~NoneSelected(hatRecord) /\ Get(pre, hatId) = Undefined
       THEN [attachedHats |-> att, actors |-> acts,
             created |-> 0, threw |-> FALSE]
       ELSE IF NoneSelected(hatRecord)
       THEN [attachedHats |-> removed.attachedHats, actors |-> removed.actors,
             created |-> 0, threw |-> FALSE]
       ELSE LET new == Len(removed.actors) + 1
            IN [attachedHats |-> Put(removed.attachedHats, userId, new),
                actors |-> Append(removed.actors,
                                  CreateFromPrefab(Get(pre, hatId), hatRecord, userId)),
                created |-> new, threw |-> FALSE]

\* wearHat(hatId, userId) run in the tables att, acts and pre: the tables
\* after it, the actor it created (0: none) and whether it threw.
WearHatResult(att, acts, pre, db, hatId, userId) ==
    LET removed == RemoveWornHat(att, acts, userId)
        hatRecord == Lookup(db, hatId)
    IN IF NoneSelected(hatRecord)
       THEN [attachedHats |-> removed.attachedHats, actors |-> removed.actors,
             created |-> 0, threw |-> FALSE]
       ELSE IF Get(pre, hatId) = Undefined
       THEN \* this.prefabs[hatId].id: TypeError, id of undefined
            [attachedHats |-> removed.attachedHats, actors |-> removed.actors,
             created |-> 0, threw |-> TRUE]
       ELSE LET new == Len(removed.actors) + 1
            IN [attachedHats |-> Put(removed.attachedHats, userId, new),
                actors |-> Append(removed.actors,
                                  CreateFromPrefab(Get(pre, hatId), hatRecord, userId)),
                created |-> new, threw |-> FALSE]

\* A user leaves.
UserLeft(userId) ==
    /\ pc # "constructed"
    /\ LET r == UserLeftResult(attachedHats, actors, userId)
       IN /\ attachedHats' = r.attachedHats
          /\ actors' = r.actors
    /\ last' = Ran("userLeft", "", userId, Attached(attachedHats, userId), 0, FALSE)
    /\ UNCHANGED <<HatDatabase, loadResult, pc, loads, prefabs, errorLog, menu>>

\* A user clicks the button at index b of the menu: its click handler
\* calls wearHat with the key the button was created for.
Click(b, userId) ==
    /\ b \in DOMAIN menu
    /\ menu[b].kind = "button"
    /\ LET hatId == menu[b].onClick
           r == WearHatResult(attachedHats, actors, prefabs, HatDatabase,
                              hatId, userId)
       IN /\ Len(r.actors) <= MaxActors
          /\ attachedHats' = r.attachedHats
          /\ actors' = r.actors
          /\ last' = Ran("wearHat", hatId, userId,
                         Attached(attachedHats, userId), r.created, r.threw)
    /\ UNCHANGED <<HatDatabase, loadResult, pc, loads, prefabs, errorLog, menu>>

Next ==
    \/ Started
    \/ \E hatId \in HatIds : LoadSettled(hatId)
    \/ ShowHatMenu
    \/ \E userId \in Users : UserLeft(userId)
    \/ \E b \in 1..(2 * MaxCatalog + 2), userId \in Users : Click(b, userId)

Spec == Init /\ [][Next]_vars

(***************************************************************************)
(* Vocabulary of the properties.                                           *)
(***************************************************************************)
\* The actors created for userId.
ActorsOf(userId) ==
    {i \in 1..Len(actors) : actors[i].attachment.userId = userId}

\* The actors created for userId and not destroyed.
LiveActorsOf(userId) == {i \in ActorsOf(userId) : actors[i].destroyCalls = 0}

\* The load of key hatId was issued and has settled.
Settled(hatId) == hatId \in DOMAIN loads /\ loads[hatId] # "pending"

\* The load of key hatId resolves with at least one prefab among its assets.
LoadsPrefab(hatId) ==
    /\ hatId \in DOMAIN loadResult
    /\ loadResult[hatId].status = "resolved"
    /\ \E i \in 1..Len(loadResult[hatId].assets) :
          loadResult[hatId].assets[i].prefab

\* The first prefab among the assets the load of hatId resolves with.
FirstPrefab(hatId) ==
    LET assets == loadResult[hatId].assets
    IN assets[CHOOSE i \in 1..Len(assets) :
                 /\ assets[i].prefab
                 /\ \A j \in 1..(i - 1) : ~assets[j].prefab]

\* The prefab table holds a usable prefab for hatId.
UsablePrefab(hatId) == hatId \in DOMAIN prefabs /\ prefabs[hatId].prefab

\* The last handler was wearHat, called for a key with a resourceName.
WoreResourceHat ==
    /\ last.op = "wearHat"
    /\ Lookup(HatDatabase, last.hatId).resourceName # ""

(***************************************************************************)
(* C1. For every user, in every reachable state, at most one actor created *)
(* for the user is not destroyed, that actor is the one attachedHats holds *)
(* for the user, and when wearHat has recorded a new actor every actor     *)
(* created for the user before it is destroyed.                            *)
(***************************************************************************)
C1_AtMostOneLiveHat ==
    /\ \A u \in Users :
          /\ Cardinality(LiveActorsOf(u)) <= 1
          /\ LiveActorsOf(u) \subseteq {Attached(attachedHats, u)}
    /\ (last.op = "wearHat" /\ last.created # 0) =>
          \A i \in ActorsOf(last.userId) :
             i # last.created => actors[i].destroyCalls > 0

\* A user who wore a hat has selected another one: the old actor was
\* destroyed and a new one recorded.
C1_Witness ==
    /\ last.op = "wearHat"
    /\ last.had # 0
    /\ last.created # 0
    /\ last.created # last.had

(***************************************************************************)
(* C2. wearHat for a key with a resourceName and no usable prefab in the   *)
(* prefab table creates no actor, records no entry for the user and does   *)
(* not throw.                                                              *)
(***************************************************************************)
C2_MissingPrefabIsSilent ==
    (WoreResourceHat /\ ~UsablePrefab(last.hatId)) =>
       /\ last.created = 0
       /\ last.userId \notin DOMAIN attachedHats
       /\ ~last.threw

(***************************************************************************)
(* C3. Whatever loads are rejected, every key whose load resolves with a   *)
(* prefab has that prefab in the prefab table once its load has settled,   *)
(* the join of preloadHats is fulfilled once every load has settled, the   *)
(* menu is built from then on, and wearHat for such a key creates and      *)
(* records an actor.                                                       *)
(***************************************************************************)
C3_FailureIsolation ==
    /\ \A k \in DOMAIN loads :
          (Settled(k) /\ LoadsPrefab(k)) =>
             /\ k \in DOMAIN prefabs
             /\ prefabs[k] = FirstPrefab(k)
    /\ (pc # "constructed" /\ \A k \in DOMAIN loads : Settled(k)) =>
          /\ PreloadJoined
          /\ pc = "running" \/ ENABLED ShowHatMenu
    /\ pc = "running" => Len(menu) = 2 * Len(HatDatabase) + 2
    /\ (last.op = "wearHat" /\ LoadsPrefab(last.hatId)) =>
          /\ ~last.threw
          /\ last.created # 0
          /\ Attached(attachedHats, last.userId) = last.created

\* A hat whose load succeeded is worn although the load of another hat of
\* the database was rejected.
C3_Witness ==
    /\ last.op = "wearHat"
    /\ last.created # 0
    /\ LoadsPrefab(last.hatId)
    /\ \E k \in DOMAIN loadResult : loadResult[k].status = "rejected"

(***************************************************************************)
(* C4. In no reachable state does a menu actor exist, or has wearHat run,  *)
(* while the load of any key is pending: the menu is created after every   *)
(* load that preloadHats issued has settled.                               *)
(***************************************************************************)
C4_MenuAfterPreload ==
    (menu # <<>> \/ last.op = "wearHat") =>
       /\ pc = "running"
       /\ \A k \in Range(DeclaredKeys(HatDatabase)) : Settled(k)

\* The menu is built after one load was rejected and another resolved.
C4_Witness ==
    /\ \E b \in DOMAIN menu : menu[b].kind = "button"
    /\ \E k \in DOMAIN loadResult : loadResult[k].status = "rejected"
    /\ \E k \in DOMAIN loadResult : loadResult[k].status = "resolved"

(***************************************************************************)
(* C5. wearHat for a key without a resourceName, called while the user     *)
(* wears a hat, destroys that actor and leaves no entry for the user;      *)
(* called while the user wears nothing, it leaves attachedHats and the     *)
(* actors as they are. It creates nothing and does not throw.              *)
(***************************************************************************)
C5_NoneClearsHat ==
    /\ (last.op = "wearHat" /\ ~(last.hatId \in ResourceKeys(HatDatabase))) =>
          /\ last.userId \notin DOMAIN attachedHats
          /\ last.had # 0 => actors[last.had].destroyCalls = 1
          /\ LiveActorsOf(last.userId) = {}
          /\ last.created = 0
          /\ ~last.threw
    /\ \A u \in Users :
          \A h \in Range(DeclaredKeys(HatDatabase)) \ ResourceKeys(HatDatabase) :
             u \notin DOMAIN attachedHats =>
                LET r == WearHatResult(attachedHats, actors, prefabs,
                                       HatDatabase, h, u)
                IN /\ r.attachedHats = attachedHats
                   /\ r.actors = actors
                   /\ r.created = 0
                   /\ ~r.threw

\* A user who wore a hat has selected 'none'.
C5_Witness ==
    /\ last.op = "wearHat"
    /\ last.hatId = "none"
    /\ last.had # 0

(***************************************************************************)
(* C6. userLeft for a user without an entry leaves attachedHats and the    *)
(* actors as they are, and in every reachable state userLeft run twice     *)
(* for a user gives the state that userLeft run once gives: the actor is   *)
(* destroyed once. userLeft never throws.                                  *)
(***************************************************************************)
C6_UserLeftIdempotent ==
    /\ \A u \in Users :
          LET once == UserLeftResult(attachedHats, actors, u)
              twice == UserLeftResult(once.attachedHats, once.actors, u)
          IN /\ twice = once
             /\ u \notin DOMAIN attachedHats =>
                   /\ once.attachedHats = attachedHats
                   /\ once.actors = actors
    /\ last.op = "userLeft" =>
          /\ ~last.threw
          /\ \A i \in ActorsOf(last.userId) : actors[i].destroyCalls = 1

\* userLeft has run for a user who wore a hat: a second userLeft for the
\* user starts here.
C6_Witness ==
    /\ last.op = "userLeft"
    /\ last.had # 0
    /\ actors[last.had].destroyCalls = 1
    /\ last.userId \notin DOMAIN attachedHats

(***************************************************************************)
(* C7. After userLeft for a user, attachedHats has no entry for the user   *)
(* and every actor ever created for the user is destroyed.                 *)
(***************************************************************************)
C7_NoOrphanAfterLeave ==
    last.op = "userLeft" =>
       /\ last.userId \notin DOMAIN attachedHats
       /\ \A i \in ActorsOf(last.userId) : actors[i].destroyCalls > 0

\* A user who wore a hat has left while another user keeps a hat.
C7_Witness ==
    /\ last.op = "userLeft"
    /\ last.had # 0
    /\ \E v \in Users \ {last.userId} : v \in DOMAIN attachedHats

(***************************************************************************)
(* C8. Once the menu is built, every key with a resourceName has a usable  *)
(* prefab in the prefab table or a logged load failure.                    *)
(***************************************************************************)
C8_PrefabOrLoggedFailure ==
    menu # <<>> =>
       \A k \in ResourceKeys(HatDatabase) :
          \/ UsablePrefab(k)
          \/ \E e \in errorLog : e.failed = k

(***************************************************************************)
(* The layout of the menu.                                                 *)
(***************************************************************************)
IsButton(a) == a.kind = "button"
IsLabel(a) == a.kind = "label"
IsTitle(a) == a.kind = "title"

\* The keys of the buttons, in the order the buttons were created.
ButtonKeys ==
    LET buttons == SelectSeq(menu, IsButton)
    IN [i \in 1..Len(buttons) |-> buttons[i].name]

\* The position of key in the sequence keys.
IndexOf(keys, key) == CHOOSE i \in 1..Len(keys) : keys[i] = key

\* The menu shows one button and one label per entry of the database, the
\* i-th pair for the key order[i], each pair one fixed step above the pair
\* before it, and one title above them all.
MenuShows(order) ==
    LET buttons == SelectSeq(menu, IsButton)
        labels == SelectSeq(menu, IsLabel)
        titles == SelectSeq(menu, IsTitle)
        n == Len(HatDatabase)
    IN /\ Len(buttons) = n
       /\ Len(labels) = n
       /\ Len(titles) = 1
       /\ Len(order) = n
       /\ \A i \in 1..n :
             /\ buttons[i].name = order[i]
             /\ buttons[i].onClick = order[i]
             /\ labels[i].contents = Lookup(HatDatabase, order[i]).displayName
             /\ labels[i].y = buttons[i].y
             /\ titles[1].y > buttons[i].y
       /\ \A i \in 1..(n - 1) :
             /\ buttons[i + 1].y > buttons[i].y
             /\ buttons[i + 1].y - buttons[i].y = YStep

\* order lists the declared keys, the array indices first by ascending
\* value, then the other keys as they are declared.
ArrayIndicesFirst(order) ==
    LET declared == DeclaredKeys(HatDatabase)
    IN /\ Len(order) = Len(declared)
       /\ Range(order) = Range(declared)
       /\ \A i, j \in 1..Len(order) :
             i < j =>
                IF IsArrayIndex(order[i]) /\ IsArrayIndex(order[j])
                THEN ArrayIndex(order[i]) < ArrayIndex(order[j])
                ELSE \/ IsArrayIndex(order[i])
                     \/ /\ ~IsArrayIndex(order[j])
                        /\ IndexOf(declared, order[i]) < IndexOf(declared, order[j])

C10_WearsNewInstance ==
    /\ (WoreResourceHat /\ UsablePrefab(last.hatId)) =>
          LET hatRecord == Lookup(HatDatabase, last.hatId)
          IN /\ ~last.threw
             /\ last.userId \in DOMAIN attachedHats
             /\ attachedHats[last.userId] = last.created
             /\ last.created = Len(actors)
             /\ last.created # last.had
             /\ actors[last.created] =
                   [prefabId |-> prefabs[last.hatId].id,
                    transform |->
                       [position |-> hatRecord.position,
                        rotation |-> FromEulerDegrees(hatRecord.rotation),
                        scale |-> hatRecord.scale],
                    attachment |-> [attachPoint |-> "head",
                                    userId |-> last.userId],
                    destroyCalls |-> 0]
    /\ \A u \in Users : ActorsOf(u) = {} => u \notin DOMAIN attachedHats

\* A user who wore nothing has put on a hat while another user wears one.
C10_Witness ==
    /\ WoreResourceHat
    /\ last.created # 0
    /\ last.had = 0
    /\ \E v \in Users \ {last.userId} : v \in DOMAIN attachedHats

(***************************************************************************)
(* Scheduling. The runtime delivers the result of every load that settles, *)
(* and the event loop resumes started once the promise it awaits is        *)
(* fulfilled. A load whose result is "never" is never delivered.           *)
(***************************************************************************)
FairSpec ==
    /\ Init
    /\ [][Next]_vars
    /\ \A hatId \in HatIds : WF_vars(LoadSettled(hatId))
    /\ WF_vars(ShowHatMenu)

\* Every load that preloadHats issues settles at some time.
EveryLoadSettles ==
    \A k \in DOMAIN loadResult : loadResult[k].status # "never"

(***************************************************************************)
(* C11. After the session has started, if every issued load settles, the   *)
(* menu is eventually built; showHatMenu runs only while no menu exists,   *)
(* so the menu is built once and never rebuilt; and if some load never     *)
(* settles, the menu is never built.                                       *)
(***************************************************************************)
C11_StartupLiveness ==
    /\ (pc # "constructed" /\ EveryLoadSettles) ~> (menu # <<>>)
    /\ [][last'.op = "showHatMenu" => (menu = <<>> /\ pc = "preloading")]_vars
    /\ [][menu # <<>> => menu' = menu]_vars
    /\ [](~EveryLoadSettles => menu = <<>>)

\* The menu has just been built for a database with two resources, after
\* both loads have settled, one of them by a rejection.
C11_Witness ==
    /\ last.op = "showHatMenu"
    /\ menu # <<>>
    /\ Cardinality(DOMAIN loadResult) >= 2
    /\ \E k \in DOMAIN loadResult : loadResult[k].status = "rejected"

(***************************************************************************)
(* C12. Once every load has settled, the prefab table is determined by the *)
(* results of the loads alone: it holds, for each key whose load resolved, *)
(* the first prefab of the result (undefined when the result has none),    *)
(* and nothing else, in whatever order the loads settled and whatever      *)
(* userLeft events came between them.                                      *)
(***************************************************************************)
C12_PrefabsIndependentOfOrder ==
    (pc # "constructed" /\ \A k \in DOMAIN loads : Settled(k)) =>
       /\ DOMAIN prefabs =
             {k \in DOMAIN loadResult : loadResult[k].status = "resolved"}
       /\ \A k \in DOMAIN prefabs :
             prefabs[k] = IF LoadsPrefab(k) THEN FirstPrefab(k) ELSE Undefined

\* Two loads have resolved and the load that was the last to settle has
\* just settled.
C12_Witness ==
    /\ pc = "preloading"
    /\ \A k \in DOMAIN loads : Settled(k)
    /\ Cardinality(DOMAIN prefabs) >= 2
    /\ last.op = "loadSettled"

(***************************************************************************)
(* C13. When a user wears an actor made from the prefab of a key and       *)
(* wearHat is called for the same key, the actor is destroyed and a new    *)
(* actor, different from it, is created and recorded for the user.         *)
(***************************************************************************)
C13_ReselectRecreates ==
    (/\ WoreResourceHat
     /\ UsablePrefab(last.hatId)
     /\ last.had # 0
     /\ actors[last.had].prefabId = prefabs[last.hatId].id) =>
       /\ last.created # 0
       /\ last.created # last.had
       /\ actors[last.had].destroyCalls = 1
       /\ actors[last.created].destroyCalls = 0
       /\ actors[last.created].prefabId = actors[last.had].prefabId
       /\ Attached(attachedHats, last.userId) = last.created

\* A user has selected the hat the user already wore.
C13_Witness ==
    /\ WoreResourceHat
    /\ last.had # 0
    /\ last.created # 0
    /\ actors[last.had].prefabId = actors[last.created].prefabId

(***************************************************************************)
(* C14. wearHat and userLeft for a user leave every other user's entry in  *)
(* attachedHats and every actor created for another user as they are: in   *)
(* every reachable state, for every user and key, the tables after the     *)
(* call agree with the tables before it on all other users.                *)
(***************************************************************************)
OthersUntouched(userId, after) ==
    \A v \in Users \ {userId} :
       /\ Attached(after.attachedHats, v) = Attached(attachedHats, v)
       /\ (v \in DOMAIN after.attachedHats) = (v \in DOMAIN attachedHats)
       /\ \A i \in ActorsOf(v) :
             i <= Len(after.actors) /\ after.actors[i] = actors[i]
       /\ \A i \in (Len(actors) + 1)..Len(after.actors) :
             after.actors[i].attachment.userId # v

C14_OtherUsersUntouched ==
    \A u \in Users :
       /\ OthersUntouched(u, UserLeftResult(attachedHats, actors, u))
       /\ \A h \in Range(DeclaredKeys(HatDatabase)) :
             OthersUntouched(u, WearHatResult(attachedHats, actors, prefabs,
                                              HatDatabase, h, u))

\* A user who wore a hat has selected 'none' while another user wears a
\* hat.
C14_Witness ==
    /\ last.op = "wearHat"
    /\ last.had # 0
    /\ last.created = 0
    /\ ~last.threw
    /\ \E v \in Users \ {last.userId} : v \in DOMAIN attachedHats

(***************************************************************************)
(* C15. Once started has resumed from its await, no step changes the       *)
(* prefab table, and no step ever changes the hat database.                *)
(***************************************************************************)
C15_PrefabsFrozenAfterPreload ==
    /\ [][pc = "running" => prefabs' = prefabs]_vars
    /\ [][HatDatabase' = HatDatabase]_vars

\* A hat is worn after the preload filled the table with two entries.
C15_Witness ==
    /\ pc = "running"
    /\ last.op = "wearHat"
    /\ last.created # 0
    /\ Cardinality(DOMAIN prefabs) >= 2

(***************************************************************************)
(* C16. In every reachable state each entry of attachedHats refers to an   *)
(* actor that is not destroyed, was created for that user, and was made    *)
(* from the resource of a key of the database with a resourceName.         *)
(***************************************************************************)
C16_EntriesAreLiveHats ==
    \A u \in DOMAIN attachedHats :
       /\ attachedHats[u] \in 1..Len(actors)
       /\ actors[attachedHats[u]].destroyCalls = 0
       /\ actors[attachedHats[u]].attachment.userId = u
       /\ \E k \in ResourceKeys(HatDatabase) :
             /\ Lookup(HatDatabase, k).resourceName # ""
             /\ actors[attachedHats[u]].prefabId[1] =
                   Lookup(HatDatabase, k).resourceName

\* Both users wear a hat.
C16_Witness == DOMAIN attachedHats = Users

(***************************************************************************)
(* C17. wearHat and userLeft have no await: each is one step. Every step   *)
(* of wearHat starts from the entry the user had, destroys that actor,     *)
(* removes the entry and records the new actor, all in that step, and      *)
(* every step of userLeft destroys and removes in that step, so no state   *)
(* between the statements of one of them is a state another handler runs   *)
(* in. started is split at its await: while it is suspended the only       *)
(* handlers that run are the callbacks of the loads and userLeft, and      *)
(* wearHat runs only after it has resumed.                                 *)
(***************************************************************************)
C17_HandlersRunToCompletion ==
    /\ [][last'.op = "wearHat" =>
            LET u == last'.userId
            IN /\ last'.had = Attached(attachedHats, u)
               /\ last'.had # 0 =>
                     /\ actors'[last'.had].destroyCalls =
                           actors[last'.had].destroyCalls + 1
                     /\ Attached(attachedHats', u) # last'.had
               /\ last'.created # 0 =>
                     /\ Attached(attachedHats', u) = last'.created
                     /\ Len(actors') = Len(actors) + 1
               /\ last'.created = 0 =>
                     /\ u \notin DOMAIN attachedHats'
                     /\ Len(actors') = Len(actors)]_vars
    /\ [][last'.op = "userLeft" =>
            LET u == last'.userId
            IN /\ last'.had = Attached(attachedHats, u)
               /\ last'.had # 0 =>
                     actors'[last'.had].destroyCalls =
                        actors[last'.had].destroyCalls + 1
               /\ u \notin DOMAIN attachedHats'
               /\ Len(actors') = Len(actors)]_vars
    /\ [](pc = "preloading" =>
            last.op \in {"started", "loadSettled", "userLeft"})
    /\ [](last.op = "wearHat" => pc = "running")

\* userLeft has run while started is suspended and a load is pending.
C17_Witness ==
    /\ pc = "preloading"
    /\ last.op = "userLeft"
    /\ \E k \in DOMAIN loads : loads[k] = "pending"

(***************************************************************************)
(* C18. However wearHat ends, for a key without a resourceName, a key with *)
(* a usable prefab or a key whose prefab is missing, the actor the user    *)
(* wore before the call is destroyed and is no longer the user's entry.    *)
(***************************************************************************)
C18_PreviousHatAlwaysRemoved ==
    (last.op = "wearHat" /\ last.had # 0) =>
       /\ actors[last.had].destroyCalls = 1
       /\ Attached(attachedHats, last.userId) # last.had
       /\ last.threw => last.userId \notin DOMAIN attachedHats

\* A user who wore a hat has selected a key whose prefab is missing: the
\* call threw.
C18_Witness ==
    /\ last.op = "wearHat"
    /\ last.had # 0
    /\ last.threw

====
